---- MODULE Spec2Model ----
(***************************************************************************)
(* A model of meamer-rs: the plan builder (plangenerator/src/plan.rs) and  *)
(* the RML-to-algebra translator (interpreter/src/rmlalgebra.rs).          *)
(*                                                                         *)
(* Node indices are petgraph NodeIndex values: 0-based, the node count at  *)
(* the moment the node was added.  Node i is nodes[i + 1].                 *)
(***************************************************************************)
EXTENDS Integers, Sequences, FiniteSets, TLC

VARIABLES
    nodes,      \* graph: the PlanNode weights, in NodeIndex order
    edges,      \* graph: the edges [from, to, key, value], in EdgeIndex order
    sources,    \* the shared source-index list (Plan.sources)
    handles,    \* the Plan<Stage> handles the caller holds, in creation order
    ret,        \* the last builder call and what it returned
    doc,        \* translate_to_algebra: the Document being translated
    pc,         \* translate_to_algebra: where the translation is
    count,      \* translate_to_algebra: index of the unit being processed
    jq,         \* add_join_related_ops: the (pom_idx, om_idx, om, pms) still to do
    inner,      \* the result of the second pass's try_for_each
    result      \* what translate_to_algebra handed to its caller

vars == <<nodes, edges, sources, handles, ret, doc, pc, count, jq, inner, result>>

None == "None"

\* Option<NodeIndex>::None (Plan.last_node before any source)
NoNode == -1

(***************************************************************************)
(* Bounds of the model.                                                    *)
(***************************************************************************)
MaxNodes == 4       \* builder runs: nodes in the shared graph
MaxTMs == 2         \* triples maps in a document
MaxOMs == 2         \* object maps in a document (over all its POMs)
MaxPOMs == 2        \* predicate-object maps handed to a function called alone

(***************************************************************************)
(* plan.rs: the graph behind the handles.  A plan state is a record        *)
(* [nodes, edges, sources]; a handle is [stage, last_node, from, via],     *)
(* from/via naming the handle and the call that returned it.               *)
(***************************************************************************)
EmptyGraph == [nodes |-> <<>>, edges |-> <<>>, sources |-> <<>>]

node_count(g) == Len(g.nodes)

edge_count(g) == Len(g.edges)

add_node(g, id, operator) ==
    [g EXCEPT !.nodes = Append(@, [id |-> id, operator |-> operator])]

add_edge(g, from, to, value) ==
    [g EXCEPT !.edges = Append(@, [from |-> from, to |-> to,
                                   key |-> "()", value |-> value])]

NodeId(prefix, n) == prefix \o "_" \o ToString(n)

Handle(stage, last, from, via) ==
    [stage |-> stage, last_node |-> last, from |-> from, via |-> via]

\* Plan::new()
PlanNew == Handle("Init", NoNode, 0, "new")

\* Plan<T>::empty_plan_apply_check
empty_plan_apply_check(g) == IF node_count(g) = 0 THEN "EmptyPlan" ELSE "Ok"

\* source() that forgets to register the node in the source-index list
PlanSource_unregistered(g, source) ==
    LET idx == node_count(g)
    IN  [res |-> "Ok",
         g |-> add_node(g, NodeId("Source", idx),
                        [kind |-> "SourceOp", config |-> source]),
         last |-> idx]

\* source() that registers the node count taken after the node was added
PlanSource_count_after(g, source) ==
    LET idx == node_count(g)
        g1 == add_node(g, NodeId("Source", idx),
                       [kind |-> "SourceOp", config |-> source])
    IN  [res |-> "Ok",
         g |-> [g1 EXCEPT !.sources = Append(@, node_count(g1))],
         last |-> idx]

\* a source() that forgets the frontier of the handle it returns
PlanSource_no_frontier(g, source) ==
    LET idx == node_count(g)
        g1 == add_node(g, NodeId("Source", idx),
                       [kind |-> "SourceOp", config |-> source])
    IN  [res |-> "Ok",
         g |-> [g1 EXCEPT !.sources = Append(@, idx)],
         last |-> NoNode]

\* Plan<Init>::source: the new graph and the frontier of the returned handle
PlanSource(g, source) ==
    LET idx == node_count(g)
        g1 == add_node(g, NodeId("Source", idx),
                       [kind |-> "SourceOp", config |-> source])
    IN  [res |-> "Ok",
         g |-> [g1 EXCEPT !.sources = Append(@, idx)],
         last |-> idx]

WrongApplyKinds == {"SourceOp", "TargetOp", "SerializerOp"}

\* apply that looks at the operator before it looks at the graph
PlanApply_operator_first(g, last_node, operator, node_id_prefix) ==
    IF operator.kind \in WrongApplyKinds
    THEN [res |-> "WrongApplyOperator", g |-> g, last |-> NoNode]
    ELSE IF empty_plan_apply_check(g) # "Ok"
    THEN [res |-> "EmptyPlan", g |-> g, last |-> NoNode]
    ELSE IF last_node = NoNode
    THEN [res |-> "DanglingApplyOperator", g |-> g, last |-> NoNode]
    ELSE LET id_num == node_count(g)
             g1 == add_node(g, NodeId(node_id_prefix, id_num), operator)
         IN  [res |-> "Ok",
              g |-> add_edge(g1, last_node, id_num, "MappingTuple"),
              last |-> id_num]

\* apply that takes any operator, also those with an entry point of their own
PlanApply_any_operator(g, last_node, operator, node_id_prefix) ==
    IF empty_plan_apply_check(g) # "Ok"
    THEN [res |-> "EmptyPlan", g |-> g, last |-> NoNode]
    ELSE IF last_node = NoNode
    THEN [res |-> "DanglingApplyOperator", g |-> g, last |-> NoNode]
    ELSE LET id_num == node_count(g)
             g1 == add_node(g, NodeId(node_id_prefix, id_num), operator)
         IN  [res |-> "Ok",
              g |-> add_edge(g1, last_node, id_num, "MappingTuple"),
              last |-> id_num]

\* apply that adds the node and leaves it unconnected
PlanApply_no_edge(g, last_node, operator, node_id_prefix) ==
    IF empty_plan_apply_check(g) # "Ok"
    THEN [res |-> "EmptyPlan", g |-> g, last |-> NoNode]
    ELSE IF last_node = NoNode
    THEN [res |-> "DanglingApplyOperator", g |-> g, last |-> NoNode]
    ELSE IF operator.kind \in WrongApplyKinds
    THEN [res |-> "WrongApplyOperator", g |-> g, last |-> NoNode]
    ELSE LET id_num == node_count(g)
         IN  [res |-> "Ok",
              g |-> add_node(g, NodeId(node_id_prefix, id_num), operator),
              last |-> id_num]

\* Plan<Processed>::apply
PlanApply(g, last_node, operator, node_id_prefix) ==
    IF empty_plan_apply_check(g) # "Ok"
    THEN [res |-> "EmptyPlan", g |-> g, last |-> NoNode]
    ELSE IF last_node = NoNode
    THEN [res |-> "DanglingApplyOperator", g |-> g, last |-> NoNode]
    ELSE IF operator.kind \in WrongApplyKinds
    THEN [res |-> "WrongApplyOperator", g |-> g, last |-> NoNode]
    ELSE LET id_num == node_count(g)
             g1 == add_node(g, NodeId(node_id_prefix, id_num), operator)
         IN  [res |-> "Ok",
              g |-> add_edge(g1, last_node, id_num, "MappingTuple"),
              last |-> id_num]

\* serialize with the ends of its edge swapped
PlanSerialize_edge_reversed(g, last_node, serializer) ==
    IF empty_plan_apply_check(g) # "Ok"
    THEN [res |-> "EmptyPlan", g |-> g, last |-> NoNode]
    ELSE IF last_node = NoNode
    THEN [res |-> "DanglingApplyOperator", g |-> g, last |-> NoNode]
    ELSE LET idx == node_count(g)
             g1 == add_node(g, NodeId("Serialize", idx),
                            [kind |-> "SerializerOp", config |-> serializer])
         IN  [res |-> "Ok",
              g |-> add_edge(g1, idx, last_node, "MappingTuple"),
              last |-> idx]

\* Plan<Processed>::serialize
PlanSerialize(g, last_node, serializer) ==
    IF empty_plan_apply_check(g) # "Ok"
    THEN [res |-> "EmptyPlan", g |-> g, last |-> NoNode]
    ELSE IF last_node = NoNode
    THEN [res |-> "DanglingApplyOperator", g |-> g, last |-> NoNode]
    ELSE LET idx == node_count(g)
             g1 == add_node(g, NodeId("Serialize", idx),
                            [kind |-> "SerializerOp", config |-> serializer])
         IN  [res |-> "Ok",
              g |-> add_edge(g1, last_node, idx, "MappingTuple"),
              last |-> idx]

\* a sink that numbers its node by the edge count
PlanSink_edge_numbered(g, last_node, sink) ==
    IF last_node = NoNode
    THEN [res |-> "EmptyPlan", g |-> g, last |-> NoNode]
    ELSE LET idx == node_count(g)
             g1 == add_node(g, NodeId("Sink", edge_count(g)),
                            [kind |-> "TargetOp", config |-> sink])
         IN  [res |-> "Ok",
              g |-> add_edge(g1, last_node, idx, "Serialized Format"),
              last |-> idx]

\* Plan<Serialized>::sink
PlanSink(g, last_node, sink) ==
    IF last_node = NoNode
    THEN [res |-> "EmptyPlan", g |-> g, last |-> NoNode]
    ELSE LET idx == node_count(g)
             g1 == add_node(g, NodeId("Sink", idx),
                            [kind |-> "TargetOp", config |-> sink])
         IN  [res |-> "Ok",
              g |-> add_edge(g1, last_node, idx, "Serialized Format"),
              last |-> idx]

\* Plan<Processed>::join(other).alias(a).where_by(c).compared_to(p): a join
\* node with an edge from the receiver's frontier and one from the other
\* plan's frontier; the returned handle's frontier is the join node.
PlanJoin(g, last_node, other_last, alias, child_attributes, parent_attributes) ==
    IF empty_plan_apply_check(g) # "Ok"
    THEN [res |-> "EmptyPlan", g |-> g, last |-> NoNode]
    ELSE IF last_node = NoNode \/ other_last = NoNode
    THEN [res |-> "DanglingApplyOperator", g |-> g, last |-> NoNode]
    ELSE LET idx == node_count(g)
             g1 == add_node(g, NodeId("Join", idx),
                            [kind |-> "JoinOp",
                             config |-> [alias |-> alias,
                                         child_attributes |-> child_attributes,
                                         parent_attributes |-> parent_attributes]])
             g2 == add_edge(g1, last_node, idx, "MappingTuple")
         IN  [res |-> "Ok",
              g |-> add_edge(g2, other_last, idx, "MappingTuple"),
              last |-> idx]

Graph == [nodes |-> nodes, edges |-> edges, sources |-> sources]

SetGraph(g) ==
    /\ nodes' = g.nodes
    /\ edges' = g.edges
    /\ sources' = g.sources

(***************************************************************************)
(* Builder runs: a caller holding handles derived from one Plan::new()     *)
(* calls the builder methods in any order the stage types allow.           *)
(***************************************************************************)
TestSource == [config |-> "{}", source_type |-> "File", data_format |-> "CSV"]

TestSerializer == [template |-> <<>>, options |-> None, format |-> "NT"]

TestTarget == [configuration |-> "{}", target_type |-> "File", data_format |-> "NT"]

\* the operators a caller may hand to apply
ApplyOperators ==
    { [kind |-> "ProjectOp", config |-> [projection_attributes |-> {}]],
      [kind |-> "RenameOp", config |-> [rename_pairs |-> <<<<"first", "last">>>>]],
      [kind |-> "SourceOp", config |-> TestSource],
      [kind |-> "SerializerOp", config |-> TestSerializer],
      [kind |-> "TargetOp", config |-> TestTarget] }

NoTranslation ==
    /\ doc = <<>>
    /\ pc = "builder"
    /\ count = 0
    /\ jq = <<>>
    /\ inner = "Ok"
    /\ result = None

Call(op, recv, arg, res) == [op |-> op, recv |-> recv, arg |-> arg, res |-> res]

InitBuilder ==
    /\ nodes = <<>>
    /\ edges = <<>>
    /\ sources = <<>>
    /\ handles = <<PlanNew>>
    /\ ret = Call("new", 0, None, "Ok")
    /\ NoTranslation

TransUnchanged == UNCHANGED <<doc, pc, count, jq, inner, result>>

\* a call that also moves the receiver's own frontier to the new node
Returned_receiver_advanced(op, i, arg, r, stage) ==
    /\ SetGraph(r.g)
    /\ handles' = IF r.res = "Ok"
                  THEN Append([handles EXCEPT ![i].last_node = r.last],
                              Handle(stage, r.last, i, op))
                  ELSE handles
    /\ ret' = Call(op, i, arg, r.res)
    /\ TransUnchanged

\* what a builder call leaves behind: the graph, the returned handle (if the
\* call succeeded) and the call's record
Returned(op, i, arg, r, stage) ==
    /\ SetGraph(r.g)
    /\ handles' = IF r.res = "Ok"
                  THEN Append(handles, Handle(stage, r.last, i, op))
                  ELSE handles
    /\ ret' = Call(op, i, arg, r.res)
    /\ TransUnchanged

SourceCall(i) ==
    /\ pc = "builder"
    /\ handles[i].stage = "Init"
    /\ Len(nodes) < MaxNodes
    /\ Returned("source", i, TestSource, PlanSource(Graph, TestSource), "Processed")

ApplyCall(i, operator) ==
    /\ pc = "builder"
    /\ handles[i].stage = "Processed"
    /\ Len(nodes) < MaxNodes
    /\ Returned("apply", i, operator,
                PlanApply(Graph, handles[i].last_node, operator, "Op"), "Processed")

SerializeCall(i) ==
    /\ pc = "builder"
    /\ handles[i].stage = "Processed"
    /\ Len(nodes) < MaxNodes
    /\ Returned("serialize", i, TestSerializer,
                PlanSerialize(Graph, handles[i].last_node, TestSerializer),
                "Serialized")

SinkCall(i) ==
    /\ pc = "builder"
    /\ handles[i].stage = "Serialized"
    /\ Len(nodes) < MaxNodes
    /\ Returned("sink", i, TestTarget,
                PlanSink(Graph, handles[i].last_node, TestTarget), "Sunk")

JoinCall(i, j) ==
    /\ pc = "builder"
    /\ handles[i].stage = "Processed"
    /\ handles[j].stage = "Processed"
    /\ Len(nodes) < MaxNodes
    /\ Returned("join", i, j,
                PlanJoin(Graph, handles[i].last_node, handles[j].last_node,
                         "join_0", <<"pid">>, <<"key">>), "Processed")

NextBuilder ==
    \/ \E i \in DOMAIN handles : SourceCall(i)
    \/ \E i \in DOMAIN handles : \E operator \in ApplyOperators : ApplyCall(i, operator)
    \/ \E i \in DOMAIN handles : SerializeCall(i)
    \/ \E i \in DOMAIN handles : SinkCall(i)
    \/ \E i \in DOMAIN handles : \E j \in DOMAIN handles : JoinCall(i, j)

SpecBuilder == InitBuilder /\ [][NextBuilder]_vars

(***************************************************************************)
(* The RML document model (rml_model): Option values are sequences of      *)
(* length at most one; a term value is a sequence of segments, a           *)
(* placeholder {field} or literal text.                                    *)
(***************************************************************************)
NoneOpt == <<>>

Some(x) == <<x>>

IsSome(o) == o # <<>>

Unwrap(o) == o[1]

Range(s) == {s[i] : i \in DOMAIN s}

Lit(t) == [ph |-> FALSE, text |-> t]

Ph(t) == [ph |-> TRUE, text |-> t]

RECURSIVE TermValueString(_)
\* term_value.value().to_string()
TermValueString(value) ==
    IF value = <<>> THEN ""
    ELSE (IF Head(value).ph THEN "{" \o Head(value).text \o "}" ELSE Head(value).text)
         \o TermValueString(Tail(value))

TermMapInfo(type, value, term_type) ==
    [term_map_type |-> type, term_value |-> value, term_type |-> term_type]

\* TermMapInfo::get_attributes
get_attributes(tm_info) ==
    CASE tm_info.term_map_type = "Template" ->
            {seg.text : seg \in {x \in Range(tm_info.term_value) : x.ph}}
      [] tm_info.term_map_type = "Reference" ->
            {TermValueString(tm_info.term_value)}
      [] OTHER -> {}

PrefixAttr(prefix, attr) == prefix \o "_" \o attr

\* TermMapInfo::prefix_attributes
prefix_attributes(tm_info, prefix) ==
    CASE tm_info.term_map_type = "Template" ->
            [tm_info EXCEPT !.term_value =
                [i \in DOMAIN @ |->
                    IF @[i].ph THEN Ph(PrefixAttr(prefix, @[i].text)) ELSE @[i]]]
      [] tm_info.term_map_type = "Reference" ->
            [tm_info EXCEPT !.term_value =
                <<Lit(PrefixAttr(prefix, TermValueString(@)))>>]
      [] OTHER -> tm_info

\* PredicateObjectMap::contains_ptm
contains_ptm(pom) == \E i \in DOMAIN pom.object_maps : IsSome(pom.object_maps[i].parent_tm)

(***************************************************************************)
(* rmlalgebra.rs: the pure helpers of the translation.                     *)
(***************************************************************************)
\* file_target
file_target(n) ==
    [configuration |-> [path |-> ToString(n) \o "_output.nt"],
     target_type |-> "File",
     data_format |-> "NT"]

RECURSIVE Enumerate(_, _)
\* Iterator::enumerate, from index i
Enumerate(s, i) ==
    IF s = <<>> THEN <<>> ELSE <<<<i, Head(s)>>>> \o Enumerate(Tail(s), i + 1)

RECURSIVE Filter(_, _)
\* the elements of s (in order) whose flag in keep is TRUE
Filter(s, keep) ==
    IF s = <<>> THEN <<>>
    ELSE (IF Head(keep) THEN <<Head(s)>> ELSE <<>>) \o Filter(Tail(s), Tail(keep))

IsPtm(om) == IsSome(om.parent_tm)

PtmFlags(oms) == [i \in DOMAIN oms |-> IsPtm(oms[i])]

NoPtmFlags(oms) == [i \in DOMAIN oms |-> ~IsPtm(oms[i])]

RECURSIVE LiftNoPtm(_)
\* lines 40-57: the synthetic non-join POMs of the join-bearing POMs
LiftNoPtm(ptm_poms) ==
    IF ptm_poms = <<>> THEN <<>>
    ELSE LET pom_idx == Head(ptm_poms)[1]
             pom == Head(ptm_poms)[2]
             no_ptm_oms == Filter(pom.object_maps, NoPtmFlags(pom.object_maps))
         IN  (IF no_ptm_oms # <<>>
              THEN << <<pom_idx, [predicate_maps |-> pom.predicate_maps,
                                  object_maps |-> no_ptm_oms]>> >>
              ELSE <<>>)
             \o LiftNoPtm(Tail(ptm_poms))

\* the partition that leaves the join-bearing POMs as they came, their plain
\* object maps still on them
partition_pom_join_nonjoin_unsplit(poms) ==
    LET idx_poms == Enumerate(poms, 0)
        ptm0 == Filter(idx_poms, [i \in DOMAIN poms |-> contains_ptm(poms[i])])
        no_ptm0 == Filter(idx_poms, [i \in DOMAIN poms |-> ~contains_ptm(poms[i])])
    IN  <<ptm0, no_ptm0 \o LiftNoPtm(ptm0)>>

\* partition_pom_join_nonjoin: <<ptm_poms, no_ptm_poms>>, each of (index, POM)
partition_pom_join_nonjoin(poms) ==
    LET idx_poms == Enumerate(poms, 0)
        ptm0 == Filter(idx_poms, [i \in DOMAIN poms |-> contains_ptm(poms[i])])
        no_ptm0 == Filter(idx_poms, [i \in DOMAIN poms |-> ~contains_ptm(poms[i])])
        ptm_poms == [i \in DOMAIN ptm0 |->
                        <<ptm0[i][1],
                          [ptm0[i][2] EXCEPT !.object_maps = Filter(@, PtmFlags(@))]>>]
    IN  <<ptm_poms, no_ptm0 \o LiftNoPtm(ptm0)>>

\* translate_source_op
translate_source_op(tm) == tm.logical_source

\* the attributes an object map gives the projection (lines 243-252)
om_projection_attributes(om) ==
    IF IsSome(om.join_condition)
    THEN LET join_cond == Unwrap(om.join_condition)
         IN  Range(join_cond.child_attributes \o join_cond.parent_attributes)
    ELSE get_attributes(om.tm_info)

\* translate_projection_op
translate_projection_op(tm) ==
    LET sm_attributes == get_attributes(tm.subject_map.tm_info)
        gm_attributes == IF IsSome(tm.graph_map)
                         THEN get_attributes(Unwrap(tm.graph_map).tm_info)
                         ELSE {}
        p_attributes ==
            UNION { UNION {om_projection_attributes(om) : om \in Range(pom.object_maps)}
                    \cup UNION {get_attributes(pm.tm_info) : pm \in Range(pom.predicate_maps)}
                    : pom \in Range(tm.po_maps) }
    IN  [kind |-> "ProjectOp",
         config |-> [projection_attributes |->
                        sm_attributes \cup p_attributes \cup gm_attributes]]

Panic == [fn |-> "panic"]

\* extract_extend_function_from_term_map
extract_extend_function_from_term_map(tm_info) ==
    LET term_value == TermValueString(tm_info.term_value)
        value_function ==
            CASE tm_info.term_map_type = "Constant" ->
                    [fn |-> "Constant", value |-> term_value]
              [] tm_info.term_map_type = "Reference" ->
                    [fn |-> "Reference", value |-> term_value]
              [] tm_info.term_map_type = "Template" ->
                    [fn |-> "Template", value |-> term_value]
    IN  IF ~IsSome(tm_info.term_type) THEN Panic
        ELSE CASE Unwrap(tm_info.term_type) = "Iri" ->
                    [fn |-> "Iri",
                     inner_function |-> [fn |-> "UriEncode",
                                         inner_function |-> value_function]]
               [] Unwrap(tm_info.term_type) = "Literal" ->
                    [fn |-> "Literal", inner_function |-> value_function]
               [] Unwrap(tm_info.term_type) = "BlankNode" ->
                    [fn |-> "BlankNode", inner_function |-> value_function]
               [] OTHER -> Panic

AttrName(prefix_id, letter, pom_count, k) ==
    prefix_id \o "_" \o letter \o ToString(pom_count) \o "-" \o ToString(k)

\* sm_extract_extend_pair
sm_extract_extend_pair(prefix_id, sm) ==
    << <<prefix_id \o "_sm", extract_extend_function_from_term_map(sm.tm_info)>> >>

\* object attributes counted from one where the template counts from zero
pom_extends_from_one(prefix_id, pom_count, pom) ==
    [i \in DOMAIN pom.predicate_maps |->
        <<AttrName(prefix_id, "p", pom_count, i - 1),
          extract_extend_function_from_term_map(pom.predicate_maps[i].tm_info)>>]
    \o
    [i \in DOMAIN pom.object_maps |->
        <<AttrName(prefix_id, "o", pom_count, i),
          extract_extend_function_from_term_map(pom.object_maps[i].tm_info)>>]

\* lines 327-348: the (attribute, function) pairs of one (index, POM)
pom_extends(prefix_id, pom_count, pom) ==
    [i \in DOMAIN pom.predicate_maps |->
        <<AttrName(prefix_id, "p", pom_count, i - 1),
          extract_extend_function_from_term_map(pom.predicate_maps[i].tm_info)>>]
    \o
    [i \in DOMAIN pom.object_maps |->
        <<AttrName(prefix_id, "o", pom_count, i - 1),
          extract_extend_function_from_term_map(pom.object_maps[i].tm_info)>>]

RECURSIVE poms_extend(_, _)
poms_extend(prefix_id, idx_poms) ==
    IF idx_poms = <<>> THEN <<>>
    ELSE pom_extends(prefix_id, Head(idx_poms)[1], Head(idx_poms)[2])
         \o poms_extend(prefix_id, Tail(idx_poms))

\* HashMap::insert
MapInsert(map, key, value) ==
    [k \in DOMAIN map \cup {key} |-> IF k = key THEN value ELSE map[k]]

RECURSIVE Collect(_)
\* Iterator::collect into a HashMap: a later pair replaces an earlier one
Collect(pairs) ==
    IF pairs = <<>> THEN <<>>
    ELSE LET last == pairs[Len(pairs)]
         IN  MapInsert(Collect(SubSeq(pairs, 1, Len(pairs) - 1)), last[1], last[2])

Panics(pairs) == \E i \in DOMAIN pairs : pairs[i][2] = Panic

\* translate_extend_pairs: the map, or Panic when a function construction
\* panicked
translate_extend_pairs(prefix_id, sm, idx_poms) ==
    LET sub_extend == sm_extract_extend_pair(prefix_id, sm)
        all == poms_extend(prefix_id, idx_poms) \o sub_extend
    IN  IF Panics(all) THEN Panic ELSE Collect(all)

\* translate_extend_op
translate_extend_op(sm, idx_poms, prefix_id) ==
    LET extend_pairs == translate_extend_pairs(prefix_id, sm, idx_poms)
    IN  IF extend_pairs = Panic THEN Panic
        ELSE [kind |-> "ExtendOp", config |-> [extend_pairs |-> extend_pairs]]

\* line 391, and the newline of line 393: one pattern line, in pieces
PatternLine(subject, predicate, object) ==
    <<" ?", subject, " ?", predicate, " ?", object, ".", "\n">>

RECURSIVE Concat(_)
Concat(ss) == IF ss = <<>> THEN <<>> ELSE Head(ss) \o Concat(Tail(ss))

\* the pairs of one (index, POM) with the object as the outer loop
pom_pairs_object_major(prefix_id, idx, pom) ==
    LET p_length == Len(pom.predicate_maps)
        o_length == Len(pom.object_maps)
    IN  Concat([o \in 1..o_length |->
                  [p \in 1..p_length |->
                      <<AttrName(prefix_id, "p", idx, p - 1),
                        AttrName(prefix_id, "o", idx, o - 1)>>]])

\* lines 371-387: the (predicate, object) names of one (index, POM)
pom_pairs(prefix_id, idx, pom) ==
    LET p_length == Len(pom.predicate_maps)
        o_length == Len(pom.object_maps)
    IN  Concat([p \in 1..p_length |->
                  [o \in 1..o_length |->
                      <<AttrName(prefix_id, "p", idx, p - 1),
                        AttrName(prefix_id, "o", idx, o - 1)>>]])

\* extract_serializer_template: the template, as the pieces it is built of
extract_serializer_template(idx_poms, prefix_id) ==
    LET subject == prefix_id \o "_sm"
        predicate_objects ==
            Concat([i \in DOMAIN idx_poms |->
                      pom_pairs(prefix_id, idx_poms[i][1], idx_poms[i][2])])
    IN  Concat([i \in DOMAIN predicate_objects |->
                  PatternLine(subject, predicate_objects[i][1], predicate_objects[i][2])])

\* translate_serializer_op
translate_serializer_op(idx_poms, prefix_id) ==
    [template |-> extract_serializer_template(idx_poms, prefix_id),
     options |-> None,
     format |-> "NT"]

(***************************************************************************)
(* rmlalgebra.rs: the branches of one unit.  Each returns [res, g]: res is *)
(* "Ok", the PlanError it returned, or "panic" when it aborted; g is the   *)
(* graph it left behind.                                                   *)
(***************************************************************************)
\* the branch built without its sink
extend_serialize_unsunk(g, last_node, extend_op, label, serializer_op, n) ==
    LET a == PlanApply(g, last_node, extend_op, label)
        z == PlanSerialize(a.g, a.last, serializer_op)
    IN  IF a.res # "Ok" THEN [res |-> a.res, g |-> a.g]
        ELSE [res |-> z.res, g |-> z.g]

\* lines 199-202 and 221-224: apply(extend)?.serialize(serializer)?.sink(target),
\* the sink's own result dropped by `let _ =`
extend_serialize_sink(g, last_node, extend_op, label, serializer_op, n) ==
    LET a == PlanApply(g, last_node, extend_op, label)
        z == PlanSerialize(a.g, a.last, serializer_op)
        k == PlanSink(z.g, z.last, file_target(n))
    IN  IF a.res # "Ok" THEN [res |-> a.res, g |-> a.g]
        ELSE IF z.res # "Ok" THEN [res |-> z.res, g |-> z.g]
        ELSE [res |-> "Ok", g |-> k.g]

\* add_non_join_related_ops
add_non_join_related_ops(g, no_join_idx_poms, sm, prefix_id, last_node, n) ==
    LET extend_op == translate_extend_op(sm, no_join_idx_poms, prefix_id)
        serializer_op == translate_serializer_op(no_join_idx_poms, prefix_id)
    IN  IF extend_op = Panic THEN [res |-> "panic", g |-> g]
        ELSE extend_serialize_sink(g, last_node, extend_op, "ExtendOp",
                                   serializer_op, n)

\* search_tm_plan_map.get: the index (from 0) of the unit with this
\* identifier, the last one collected winning; -1 when there is none
LookupParent(d, ptm_iri) ==
    LET hits == {i \in DOMAIN d : d[i].identifier = ptm_iri}
    IN  IF hits = {} THEN NoNode
        ELSE (CHOOSE i \in hits : \A j \in hits : j <= i) - 1

\* the join tagged with the child's sequence index in place of the parent's
join_one_child_alias(g, d, hs, item, sm, prefix_id, last_node, n) ==
    LET om == item.om
        idx == LookupParent(d, Unwrap(om.parent_tm))
    IN  IF ~IsSome(om.parent_tm) THEN [res |-> "AuxError", g |-> g]
        ELSE IF idx = NoNode THEN [res |-> "AuxError", g |-> g]
        ELSE IF ~IsSome(om.join_condition) THEN [res |-> "panic", g |-> g]
        ELSE
        LET ptm == d[idx + 1]
            other_plan == hs[idx + 1]
            join_cond == Unwrap(om.join_condition)
            ptm_alias == "join_" \o ToString(n)
            j == PlanJoin(g, last_node, other_plan.last_node, ptm_alias,
                          join_cond.child_attributes, join_cond.parent_attributes)
            ptm_sm_info == prefix_attributes(ptm.subject_map.tm_info, ptm_alias)
            ptm_sub_function == extract_extend_function_from_term_map(ptm_sm_info)
            om_extend_attr == AttrName(prefix_id, "o", item.pom_idx, item.om_idx)
            pom_with_joined_ptm == [predicate_maps |-> item.pms, object_maps |-> <<om>>]
            idx_poms == << <<item.pom_idx, pom_with_joined_ptm>> >>
            pairs == translate_extend_pairs(prefix_id, sm, idx_poms)
            extend_op == [kind |-> "ExtendOp",
                          config |-> [extend_pairs |->
                              MapInsert(pairs, om_extend_attr, ptm_sub_function)]]
            serializer_op == translate_serializer_op(idx_poms, prefix_id)
        IN  IF j.res # "Ok" THEN [res |-> j.res, g |-> j.g]
            ELSE IF ptm_sub_function = Panic \/ pairs = Panic
            THEN [res |-> "panic", g |-> j.g]
            ELSE extend_serialize_sink(j.g, j.last, extend_op, "Extend",
                                       serializer_op, n)

\* the body of add_join_related_ops's inner loop (lines 143-203) for the
\* object map at om_idx of the join-bearing POM (pom_idx, pms)
join_one(g, d, hs, item, sm, prefix_id, last_node, n) ==
    LET om == item.om
        idx == LookupParent(d, Unwrap(om.parent_tm))
    IN  IF ~IsSome(om.parent_tm) THEN [res |-> "AuxError", g |-> g]
        ELSE IF idx = NoNode THEN [res |-> "AuxError", g |-> g]
        ELSE IF ~IsSome(om.join_condition) THEN [res |-> "panic", g |-> g]
        ELSE
        LET ptm == d[idx + 1]
            other_plan == hs[idx + 1]
            join_cond == Unwrap(om.join_condition)
            ptm_alias == "join_" \o ToString(idx)
            j == PlanJoin(g, last_node, other_plan.last_node, ptm_alias,
                          join_cond.child_attributes, join_cond.parent_attributes)
            ptm_sm_info == prefix_attributes(ptm.subject_map.tm_info, ptm_alias)
            ptm_sub_function == extract_extend_function_from_term_map(ptm_sm_info)
            om_extend_attr == AttrName(prefix_id, "o", item.pom_idx, item.om_idx)
            pom_with_joined_ptm == [predicate_maps |-> item.pms, object_maps |-> <<om>>]
            idx_poms == << <<item.pom_idx, pom_with_joined_ptm>> >>
            pairs == translate_extend_pairs(prefix_id, sm, idx_poms)
            extend_op == [kind |-> "ExtendOp",
                          config |-> [extend_pairs |->
                              MapInsert(pairs, om_extend_attr, ptm_sub_function)]]
            serializer_op == translate_serializer_op(idx_poms, prefix_id)
        IN  IF j.res # "Ok" THEN [res |-> j.res, g |-> j.g]
            ELSE IF ptm_sub_function = Panic \/ pairs = Panic
            THEN [res |-> "panic", g |-> j.g]
            ELSE extend_serialize_sink(j.g, j.last, extend_op, "Extend",
                                       serializer_op, n)

\* lines 139-143: the object maps add_join_related_ops goes through, in order
JoinItems(join_idx_poms) ==
    Concat([i \in DOMAIN join_idx_poms |->
              LET pom == join_idx_poms[i][2]
              IN  [k \in DOMAIN pom.object_maps |->
                      [pom_idx |-> join_idx_poms[i][1], om_idx |-> k - 1,
                       om |-> pom.object_maps[k], pms |-> pom.predicate_maps]]])

\* line 125: what translate_to_algebra returns once the second pass has
\* ended with `second_pass` (line 85 drops it)
translate_return(second_pass) == "Ok"

(***************************************************************************)
(* The documents translated.                                               *)
(***************************************************************************)
Identifier(i) == "ex:TriplesMap" \o ToString(i)

MissingParent == "ex:Missing"

LogicalSource(i) ==
    [config |-> [path |-> "file" \o ToString(i) \o ".csv"],
     source_type |-> "File", data_format |-> "CSV"]

SubjectMaps ==
    { [tm_info |-> TermMapInfo("Template", <<Lit("http://ex/"), Ph("id")>>, Some("Iri"))],
      [tm_info |-> TermMapInfo("Template", <<Lit("http://ex/"), Ph("id")>>, NoneOpt)] }

PredicateMap1 == [tm_info |-> TermMapInfo("Constant", <<Lit("ex:p")>>, Some("Iri"))]

PredicateMap2 == [tm_info |-> TermMapInfo("Reference", <<Lit("pred")>>, Some("Iri"))]

PredicateMapLists == { <<PredicateMap1>>, <<PredicateMap1, PredicateMap2>> }

PlainObjectMap ==
    [tm_info |-> TermMapInfo("Reference", <<Lit("name")>>, Some("Literal")),
     parent_tm |-> NoneOpt, join_condition |-> NoneOpt]

JoinConditions ==
    { NoneOpt,
      Some([child_attributes |-> <<"pid">>, parent_attributes |-> <<"key">>]) }

ParentRefs == {Identifier(0), Identifier(1), MissingParent}

RefObjectMaps ==
    { [tm_info |-> TermMapInfo("Reference", <<Lit("ref")>>, Some("Iri")),
       parent_tm |-> Some(p), join_condition |-> jc]
      : p \in ParentRefs, jc \in JoinConditions }

ObjectMaps == {PlainObjectMap} \cup RefObjectMaps

\* the units of the m object maps, in document order
Places(n, m) == {f \in [1..m -> 1..n] : \A k \in 2..m : f[k - 1] <= f[k]}

\* which object maps open a new POM: the first of each unit does
Breaks(m, place) ==
    {b \in [1..m -> BOOLEAN] : \A k \in 1..m : (k = 1 \/ place[k] # place[k - 1]) => b[k]}

\* the POMs of unit i: its object maps, cut where a new POM opens
UnitPOMs(i, pms, oms, place, brk) ==
    LET starts == {k \in DOMAIN oms : place[k] = i /\ brk[k]}
        last(k) == CHOOSE e \in k..Len(oms) :
                       /\ \A x \in k..e : place[x] = i /\ (x > k => ~brk[x])
                       /\ (e < Len(oms) => (place[e + 1] # i \/ brk[e + 1]))
        RECURSIVE From(_)
        From(S) == IF S = {} THEN <<>>
                   ELSE LET k == CHOOSE x \in S : \A y \in S : x <= y
                        IN  << [predicate_maps |-> pms,
                                object_maps |-> SubSeq(oms, k, last(k))] >>
                            \o From(S \ {k})
    IN  From(starts)

\* the subject maps of n units: at most one of them lacks its term type
SubjectMapChoices(n) ==
    {sms \in [1..n -> SubjectMaps] :
        Cardinality({i \in 1..n : ~IsSome(sms[i].tm_info.term_type)}) <= 1}

GraphMap == [tm_info |-> TermMapInfo("Reference", <<Lit("graph")>>, Some("Iri"))]

NoGraphMaps(n) == [i \in 1..n |-> NoneOpt]

BuildDoc(n, sms, gms, pms, oms, place, brk) ==
    [i \in 1..n |->
        [identifier |-> Identifier(i - 1),
         logical_source |-> LogicalSource(i - 1),
         subject_map |-> sms[i],
         graph_map |-> gms[i],
         po_maps |-> UnitPOMs(i, pms, oms, place, brk)]]

(***************************************************************************)
(* translate_to_algebra, a unit at a time.                                 *)
(***************************************************************************)
InitTranslate ==
    /\ nodes = <<>>
    /\ edges = <<>>
    /\ sources = <<>>
    /\ handles = <<>>
    /\ ret = Call("new", 0, None, "Ok")
    /\ \E n \in 1..MaxTMs, m \in 0..MaxOMs :
         \E place \in Places(n, m) :
           \E brk \in Breaks(m, place) :
             \E sms \in SubjectMapChoices(n), pms \in PredicateMapLists,
                oms \in [1..m -> ObjectMaps] :
                doc = BuildDoc(n, sms, NoGraphMaps(n), pms, oms, place, brk)
    /\ pc = "first"
    /\ count = 0
    /\ jq = <<>>
    /\ inner = "Ok"
    /\ result = None

\* lines 64-77: one unit of the first pass, Source -> Project
FirstPassUnit ==
    /\ pc = "first"
    /\ count < Len(doc)
    /\ LET tm == doc[count + 1]
           s == PlanSource(Graph, translate_source_op(tm))
           a == PlanApply(s.g, s.last, translate_projection_op(tm), "Projection")
       IN  /\ SetGraph(a.g)
           /\ IF a.res # "Ok"
              THEN /\ result' = a.res
                   /\ pc' = "done"
                   /\ UNCHANGED <<handles, count>>
              ELSE /\ handles' = Append(handles, Handle("Processed", a.last, 0, "apply"))
                   /\ result' = result
                   /\ count' = IF count + 1 = Len(doc) THEN 0 ELSE count + 1
                   /\ pc' = IF count + 1 = Len(doc) THEN "second" ELSE "first"
    /\ UNCHANGED <<ret, doc, jq, inner>>

\* the second pass moves on to the next unit, or ends
NextUnit ==
    /\ count' = count + 1
    /\ pc' = IF count + 1 = Len(doc) THEN "return" ELSE "second"
    /\ UNCHANGED <<inner, result>>

\* a branch ended with r.res: an error ends the try_for_each, a panic the call
BranchFailed(r) ==
    /\ count' = count
    /\ IF r.res = "panic"
       THEN /\ result' = "panic"
            /\ pc' = "done"
            /\ inner' = inner
       ELSE /\ inner' = r.res
            /\ pc' = "return"
            /\ result' = result

\* lines 89-106: a unit of the second pass, up to its non-join branch
SecondPassUnit ==
    /\ pc = "second"
    /\ count < Len(doc)
    /\ LET tm == doc[count + 1]
           prefix_id == "tm_" \o ToString(count)
           parts == partition_pom_join_nonjoin(tm.po_maps)
           r == IF parts[2] # <<>>
                THEN add_non_join_related_ops(Graph, parts[2], tm.subject_map,
                         prefix_id, handles[count + 1].last_node, count)
                ELSE [res |-> "Ok", g |-> Graph]
       IN  /\ SetGraph(r.g)
           /\ IF r.res # "Ok"
              THEN BranchFailed(r) /\ jq' = jq
              ELSE IF parts[1] # <<>>
              THEN /\ jq' = JoinItems(parts[1])
                   /\ pc' = "join"
                   /\ UNCHANGED <<count, inner, result>>
              ELSE NextUnit /\ jq' = jq
    /\ UNCHANGED <<handles, ret, doc>>

\* lines 143-203: the join branch of one parent-referencing object map
JoinStep ==
    /\ pc = "join"
    /\ jq # <<>>
    /\ LET tm == doc[count + 1]
           r == join_one(Graph, doc, handles, Head(jq), tm.subject_map,
                         "tm_" \o ToString(count), handles[count + 1].last_node, count)
       IN  /\ SetGraph(r.g)
           /\ IF r.res # "Ok"
              THEN BranchFailed(r) /\ jq' = jq
              ELSE /\ jq' = Tail(jq)
                   /\ IF Tail(jq) = <<>>
                      THEN NextUnit
                      ELSE UNCHANGED <<pc, count, inner, result>>
    /\ UNCHANGED <<handles, ret, doc>>

\* line 125
Return ==
    /\ pc = "return"
    /\ result' = translate_return(inner)
    /\ pc' = "done"
    /\ UNCHANGED <<nodes, edges, sources, handles, ret, doc, count, jq, inner>>

NextTranslate ==
    \/ FirstPassUnit
    \/ SecondPassUnit
    \/ JoinStep
    \/ Return

SpecTranslate == InitTranslate /\ [][NextTranslate]_vars

(***************************************************************************)
(* translate_to_algebra called a second time on the same document: the     *)
(* first call's result and graph are kept in ret, and the second call      *)
(* starts, as line 63 has it, on a plan of its own.                        *)
(***************************************************************************)
\* a plan kept from one call of translate_to_algebra to the next
kept_plan(g) == g

\* line 63: let mut plan = Plan::new(), whatever graph an earlier call built
fresh_plan(g) == EmptyGraph

\* the documents translated twice: every term map has its term type (a
\* translation that aborts is not repeated)
InitTwice ==
    /\ nodes = <<>>
    /\ edges = <<>>
    /\ sources = <<>>
    /\ handles = <<>>
    /\ ret = Call("new", 0, None, "Ok")
    /\ \E n \in 1..MaxTMs, m \in 0..MaxOMs :
         \E place \in Places(n, m) :
           \E brk \in Breaks(m, place) :
             \E pms \in PredicateMapLists, oms \in [1..m -> ObjectMaps] :
                doc = BuildDoc(n, [i \in 1..n |-> [tm_info |->
                                      TermMapInfo("Template", <<Lit("http://ex/"), Ph("id")>>,
                                                  Some("Iri"))]],
                               NoGraphMaps(n), pms, oms, place, brk)
    /\ pc = "first"
    /\ count = 0
    /\ jq = <<>>
    /\ inner = "Ok"
    /\ result = None

\* the caller, holding the first call's result, calls translate_to_algebra
\* again on the same document
TranslateAgain ==
    /\ pc = "done"
    /\ ret.op = "new"
    /\ result # "panic"
    /\ ret' = Call("translate_to_algebra", 0, doc,
                   [result |-> result, nodes |-> nodes, edges |-> edges,
                    sources |-> sources])
    /\ SetGraph(fresh_plan(Graph))
    /\ handles' = <<>>
    /\ pc' = "first"
    /\ count' = 0
    /\ jq' = <<>>
    /\ inner' = "Ok"
    /\ result' = None
    /\ doc' = doc

NextTwice ==
    \/ NextTranslate
    \/ TranslateAgain

SpecTwice == InitTwice /\ [][NextTwice]_vars

(***************************************************************************)
(* The builder called by any caller, or by translate_to_algebra: the runs  *)
(* of SpecBuilder together with the translations of SpecTwice's documents. *)
(***************************************************************************)
InitGrowth == InitBuilder \/ InitTwice

NextGrowth ==
    \/ NextBuilder
    \/ NextTranslate

SpecGrowth == InitGrowth /\ [][NextGrowth]_vars

(***************************************************************************)
(* Functions called alone: the call's record is in ret, its argument from  *)
(* the start and its result once pc is "returned".                         *)
(***************************************************************************)
NoPlan ==
    /\ nodes = <<>>
    /\ edges = <<>>
    /\ sources = <<>>
    /\ handles = <<>>
    /\ doc = <<>>
    /\ count = 0
    /\ jq = <<>>
    /\ inner = "Ok"
    /\ result = None

PlanUnchanged == UNCHANGED <<nodes, edges, sources, handles, doc, count, jq, inner, result>>

\* a second plain object map, to tell the object maps of a POM apart
PlainObjectMap2 ==
    [tm_info |-> TermMapInfo("Template", <<Lit("http://ex/"), Ph("title")>>, Some("Iri")),
     parent_tm |-> NoneOpt, join_condition |-> NoneOpt]

RefObjectMap ==
    [tm_info |-> TermMapInfo("Reference", <<Lit("ref")>>, Some("Iri")),
     parent_tm |-> Some(Identifier(0)),
     join_condition |-> Some([child_attributes |-> <<"pid">>,
                              parent_attributes |-> <<"key">>])]

\* the object-map lists of a POM, the empty one included
ObjectMapLists ==
    UNION {[1..k -> {PlainObjectMap, PlainObjectMap2, RefObjectMap}] : k \in 0..MaxOMs}

\* the predicate maps of the POM at position i, those of neighbours differing
PredicateMapsAt(i) ==
    IF i % 3 = 1 THEN <<PredicateMap1>>
    ELSE IF i % 3 = 2 THEN <<PredicateMap1, PredicateMap2>>
    ELSE <<PredicateMap2>>

InitPartition ==
    /\ NoPlan
    /\ pc = "call"
    /\ \E n \in 0..MaxPOMs : \E oms \in [1..n -> ObjectMapLists] :
          ret = Call("partition_pom_join_nonjoin", 0,
                     [i \in 1..n |-> [predicate_maps |-> PredicateMapsAt(i),
                                      object_maps |-> oms[i]]],
                     None)

PartitionCall ==
    /\ pc = "call"
    /\ ret.op = "partition_pom_join_nonjoin"
    /\ ret' = [ret EXCEPT !.res = partition_pom_join_nonjoin(ret.arg)]
    /\ pc' = "returned"
    /\ PlanUnchanged

SpecPartition == InitPartition /\ [][PartitionCall]_vars

\* the POMs handed to extract_serializer_template: any number of predicate
\* maps and of object maps, none included
TemplatePOMs ==
    {[predicate_maps |-> SubSeq(<<PredicateMap1, PredicateMap2>>, 1, p),
      object_maps |-> [k \in 1..o |-> PlainObjectMap]] : p \in 0..2, o \in 0..MaxOMs}

\* the (index, POM) pairs: the index is the POM's place in its triples map,
\* not its place in the list
InitTemplate ==
    /\ NoPlan
    /\ pc = "call"
    /\ \E n \in 0..MaxPOMs :
          \E idxs \in [1..n -> 0..MaxPOMs], poms \in [1..n -> TemplatePOMs] :
             ret = Call("extract_serializer_template", 0,
                        [idx_poms |-> [i \in 1..n |-> <<idxs[i], poms[i]>>],
                         prefix_id |-> "tm_0"],
                        None)

TemplateCall ==
    /\ pc = "call"
    /\ ret.op = "extract_serializer_template"
    /\ ret' = [ret EXCEPT !.res =
                  extract_serializer_template(ret.arg.idx_poms, ret.arg.prefix_id)]
    /\ pc' = "returned"
    /\ PlanUnchanged

SpecTemplate == InitTemplate /\ [][TemplateCall]_vars

(***************************************************************************)
(* translate_rename_pairs_map called alone (rename.rs).  An iterator is a  *)
(* record of its fields, a field a record of ident and field_type; the     *)
(* iterators map and the returned map are functions on strings.            *)
(***************************************************************************)
MaxFields == 2

\* format!("{}.{}", ident, field)
Dotted(ident, field) == ident \o "." \o field

\* the pairs of every field, whatever its type
translate_rename_pairs_map_all_fields(iterators_map, expr_stmt) ==
    IF expr_stmt.expr_enum.kind # "Basic" THEN <<>>
    ELSE LET reference == expr_stmt.expr_enum.reference
             iter_ident == reference.iterator_ident
             expr_ident == expr_stmt.ident
         IN  IF IsSome(reference.field)
             THEN MapInsert(<<>>, Dotted(iter_ident, Unwrap(reference.field)),
                            Dotted(expr_ident, Unwrap(reference.field)))
             ELSE IF iter_ident \in DOMAIN iterators_map
             THEN LET fields == iterators_map[iter_ident].fields
                  IN  Collect([i \in DOMAIN fields |->
                                 <<Dotted(iter_ident, fields[i].ident),
                                   Dotted(expr_ident, fields[i].ident)>>])
             ELSE <<>>

\* translate_rename_pairs_map: the map built by the inserts, in their order
translate_rename_pairs_map(iterators_map, expr_stmt) ==
    IF expr_stmt.expr_enum.kind # "Basic" THEN <<>>
    ELSE LET reference == expr_stmt.expr_enum.reference
             iter_ident == reference.iterator_ident
             expr_ident == expr_stmt.ident
         IN  IF IsSome(reference.field)
             THEN MapInsert(<<>>, Dotted(iter_ident, Unwrap(reference.field)),
                            Dotted(expr_ident, Unwrap(reference.field)))
             ELSE IF iter_ident \in DOMAIN iterators_map
             THEN LET fields == iterators_map[iter_ident].fields
                      normal_fields ==
                          Filter(fields, [i \in DOMAIN fields |->
                                            fields[i].field_type = "Normal"])
                  IN  Collect([i \in DOMAIN normal_fields |->
                                 <<Dotted(iter_ident, normal_fields[i].ident),
                                   Dotted(expr_ident, normal_fields[i].ident)>>])
             ELSE <<>>

FieldTypes == {"Normal", "Push", "Pop"}

FieldIdents == {"id", "name"}

Fields == [ident : FieldIdents, field_type : FieldTypes]

\* the field lists of an iterator: idents may repeat, with any types
FieldLists == UNION {[1..k -> Fields] : k \in 0..MaxFields}

\* a second iterator of the map, its one field of its own
OtherIterator == [ident |-> "it2", fields |-> <<[ident |-> "year", field_type |-> "Normal"]>>]

\* the iterators maps: empty, "it1" alone, "it1" and "it2"; never "it3"
IteratorsMaps ==
    {<<>>}
    \cup {[k \in {"it1"} |-> [ident |-> "it1", fields |-> fs]] : fs \in FieldLists}
    \cup {[k \in {"it1", "it2"} |->
             IF k = "it1" THEN [ident |-> "it1", fields |-> fs] ELSE OtherIterator] :
          fs \in FieldLists}

\* the expressions: a Basic one referencing an iterator, with or without a
\* field, and one of another variant
ExpressionStmts ==
    {[ident |-> "exp",
      expr_enum |-> [kind |-> "Basic",
                     reference |-> [iterator_ident |-> it, field |-> f]]] :
        it \in {"it1", "it2", "it3"}, f \in {NoneOpt} \cup {Some(g) : g \in FieldIdents}}
    \cup {[ident |-> "exp", expr_enum |-> [kind |-> "Other"]]}

InitRename ==
    /\ NoPlan
    /\ pc = "call"
    /\ \E im \in IteratorsMaps, e \in ExpressionStmts :
          ret = Call("translate_rename_pairs_map", 0,
                     [iterators_map |-> im, expr_stmt |-> e], None)

RenameCall ==
    /\ pc = "call"
    /\ ret.op = "translate_rename_pairs_map"
    /\ ret' = [ret EXCEPT !.res =
                  translate_rename_pairs_map(ret.arg.iterators_map, ret.arg.expr_stmt)]
    /\ pc' = "returned"
    /\ PlanUnchanged

SpecRename == InitRename /\ [][RenameCall]_vars

(***************************************************************************)
(* unterminated_triple_strings called alone (serializer/util.rs).  Of a    *)
(* term map only tm_info.identifier is read; the variable map is a         *)
(* function on identifiers.  A call returns its strings or panics at an    *)
(* unwrap of a lookup that found nothing.                                  *)
(***************************************************************************)
MaxPMs == 2

Strings(v) == [status |-> "returned", value |-> v]

Panicked == [status |-> "panicked", value |-> <<>>]

\* the strings of one POM: the predicate maps outside, the object maps inside
pom_triple_strings(pom, sm_var, variable_map) ==
    Concat([i \in DOMAIN pom.pm |->
              [j \in DOMAIN pom.om |->
                 sm_var \o " " \o (variable_map[pom.pm[i].tm_info.identifier] \o " "
                                   \o variable_map[pom.om[j].tm_info.identifier])]])

\* the lookups of one POM that are unwrapped: each predicate map's, and,
\* under a predicate map, each object map's
pom_unwraps_none(pom, variable_map) ==
    \/ \E i \in DOMAIN pom.pm : pom.pm[i].tm_info.identifier \notin DOMAIN variable_map
    \/ /\ pom.pm # <<>>
       /\ \E j \in DOMAIN pom.om : pom.om[j].tm_info.identifier \notin DOMAIN variable_map

\* the class strings put after the strings of the POMs
unterminated_triple_strings_classes_last(quad, variable_map) ==
    LET triples == quad.triples
        sm == triples.sm
    IN  IF sm.tm_info.identifier \notin DOMAIN variable_map THEN Panicked
        ELSE LET sm_var == variable_map[sm.tm_info.identifier]
                 cls_templates == [c \in DOMAIN sm.classes |->
                                     sm_var \o " a " \o sm.classes[c]]
             IN  IF \E q \in DOMAIN triples.poms :
                        pom_unwraps_none(triples.poms[q], variable_map)
                 THEN Panicked
                 ELSE Strings(Concat([q \in DOMAIN triples.poms |->
                                        pom_triple_strings(triples.poms[q], sm_var,
                                                           variable_map)])
                              \o cls_templates)

\* unterminated_triple_strings
unterminated_triple_strings(quad, variable_map) ==
    LET triples == quad.triples
        sm == triples.sm
    IN  IF sm.tm_info.identifier \notin DOMAIN variable_map THEN Panicked
        ELSE LET sm_var == variable_map[sm.tm_info.identifier]
                 cls_templates == [c \in DOMAIN sm.classes |->
                                     sm_var \o " a " \o sm.classes[c]]
             IN  IF \E q \in DOMAIN triples.poms :
                        pom_unwraps_none(triples.poms[q], variable_map)
                 THEN Panicked
                 ELSE Strings(cls_templates
                              \o Concat([q \in DOMAIN triples.poms |->
                                           pom_triple_strings(triples.poms[q], sm_var,
                                                              variable_map)]))

\* a term map, as far as the function reads it
TermMapOf(identifier) == [tm_info |-> [identifier |-> identifier]]

\* the identifier of the i-th term map of kind "pm" or "om" of the q-th POM
TermMapId(kind, q, i) == kind \o ToString(q) \o "_" \o ToString(i)

ClassLists == {<<>>, <<"ex:A">>, <<"ex:A", "ex:B">>}

\* the q-th POM, of n_pm predicate maps and n_om object maps
PomOf(q, n_pm, n_om) ==
    [pm |-> [i \in 1..n_pm |-> TermMapOf(TermMapId("pm", q, i))],
     om |-> [j \in 1..n_om |-> TermMapOf(TermMapId("om", q, j))]]

QuadOf(classes, shapes) ==
    [triples |-> [sm |-> [tm_info |-> [identifier |-> "sm"], classes |-> classes],
                  poms |-> [q \in DOMAIN shapes |-> PomOf(q, shapes[q][1], shapes[q][2])]]]

\* the identifiers of the term maps of a quad
QuadIdentifiers(quad) ==
    {quad.triples.sm.tm_info.identifier}
    \cup UNION {{quad.triples.poms[q].pm[i].tm_info.identifier :
                    i \in DOMAIN quad.triples.poms[q].pm}
                \cup {quad.triples.poms[q].om[j].tm_info.identifier :
                         j \in DOMAIN quad.triples.poms[q].om} :
                q \in DOMAIN quad.triples.poms}

\* a variable map: a variable of its own for every identifier of the quad
\* but the one left out
VariableMapWithout(quad, left_out) ==
    [id \in QuadIdentifiers(quad) \ {left_out} |-> "?" \o id]

LeftOut == {"none", "sm", TermMapId("pm", 1, 1), TermMapId("om", 1, 1)}

InitTriples ==
    /\ NoPlan
    /\ pc = "call"
    /\ \E classes \in ClassLists, n \in 0..MaxPOMs, left_out \in LeftOut :
          \E shapes \in [1..n -> (0..MaxPMs) \X (0..MaxOMs)] :
              ret = Call("unterminated_triple_strings", 0,
                         [quad |-> QuadOf(classes, shapes),
                          variable_map |-> VariableMapWithout(QuadOf(classes, shapes),
                                                              left_out)],
                         None)

TriplesCall ==
    /\ pc = "call"
    /\ ret.op = "unterminated_triple_strings"
    /\ ret' = [ret EXCEPT !.res =
                  unterminated_triple_strings(ret.arg.quad, ret.arg.variable_map)]
    /\ pc' = "returned"
    /\ PlanUnchanged

SpecTriples == InitTriples /\ [][TriplesCall]_vars

(***************************************************************************)
(* The first pass alone on one triples map (as test_projection_operator    *)
(* runs translate_projection_op), the triples map with or without a graph  *)
(* map.                                                                    *)
(***************************************************************************)
InitProjection ==
    /\ nodes = <<>>
    /\ edges = <<>>
    /\ sources = <<>>
    /\ handles = <<>>
    /\ ret = Call("new", 0, None, "Ok")
    /\ \E m \in 0..MaxOMs :
         \E brk \in Breaks(m, [k \in 1..m |-> 1]) :
           \E sms \in [1..1 -> SubjectMaps], gm \in {NoneOpt, Some(GraphMap)},
              pms \in PredicateMapLists, oms \in [1..m -> ObjectMaps] :
              doc = BuildDoc(1, sms, <<gm>>, pms, oms, [k \in 1..m |-> 1], brk)
    /\ pc = "first"
    /\ count = 0
    /\ jq = <<>>
    /\ inner = "Ok"
    /\ result = None

SpecProjection == InitProjection /\ [][FirstPassUnit]_vars

(***************************************************************************)
(* apply on any Processed handle: last_node and graph are pub fields of    *)
(* Plan (plan.rs lines 36-41), so a caller may hold a Processed handle     *)
(* whose frontier was taken away or whose graph was cleared.               *)
(***************************************************************************)
TestProject == [kind |-> "ProjectOp", config |-> [projection_attributes |-> {}]]

\* the graphs the handle may sit on: cleared, a source, a source and a project
HandleGraphs ==
    LET g1 == PlanSource(EmptyGraph, TestSource).g
    IN  {EmptyGraph, g1, PlanApply(g1, 0, TestProject, "Projection").g}

InitApply ==
    /\ \E g \in HandleGraphs :
         /\ nodes = g.nodes
         /\ edges = g.edges
         /\ sources = g.sources
         /\ \E last \in {NoNode} \cup {i \in 0..MaxNodes : i < node_count(g)} :
              handles = <<Handle("Processed", last, 0, "source")>>
    /\ ret = Call("new", 0, None, "Ok")
    /\ NoTranslation

NextApply == \E i \in DOMAIN handles : \E operator \in ApplyOperators : ApplyCall(i, operator)

SpecApply == InitApply /\ [][NextApply]_vars

(***************************************************************************)
(* Reading the graph.                                                      *)
(***************************************************************************)
NodeIdxs == 0..(Len(nodes) - 1)

Op(i) == nodes[i + 1].operator

Kind(i) == Op(i).kind

NodesOfKind(k) == {i \in NodeIdxs : Kind(i) = k}

InEdges(i) == {e \in DOMAIN edges : edges[e].to = i}

OutEdges(i) == {e \in DOMAIN edges : edges[e].from = i}

\* the translation has handed a plan to its caller
PlanReturned == pc = "done" /\ result = "Ok"

Units == DOMAIN doc

\* the object maps of unit u, as (POM position, object map position) pairs
ObjectMapsOf(u) ==
    {<<p, o>> : p \in DOMAIN doc[u].po_maps, o \in 1..MaxOMs} \cap
    UNION {{<<p, o>> : o \in DOMAIN doc[u].po_maps[p].object_maps}
           : p \in DOMAIN doc[u].po_maps}

OM(u, po) == doc[u].po_maps[po[1]].object_maps[po[2]]

\* the parent-referencing object maps of unit u
PtmObjectMapsOf(u) == {po \in ObjectMapsOf(u) : IsPtm(OM(u, po))}

HasPtm(d) == \E u \in DOMAIN d : \E p \in DOMAIN d[u].po_maps : contains_ptm(d[u].po_maps[p])

(***************************************************************************)
(* C1.  translate_to_algebra propagates second-pass failures: when the     *)
(* building of a unit's branch fails (a parent-referencing object map      *)
(* names an identifier no triples map has), translate returns that failure *)
(* and never an Ok plan.                                                   *)
(***************************************************************************)
C1_SecondPassFailureReturned ==
    (pc = "done" /\ inner # "Ok") => (result = inner /\ result # "Ok")


(***************************************************************************)
(* C2.  A document with an object map that has parent_tm set and no join   *)
(* condition ends in a returned error (MalformedJoin), not in an abort,    *)
(* and no plan is handed to the caller.                                    *)
(***************************************************************************)
MalformedJoin(om) == IsSome(om.parent_tm) /\ ~IsSome(om.join_condition)

HasMalformedJoin(d) ==
    \E u \in DOMAIN d : \E p \in DOMAIN d[u].po_maps :
        \E o \in DOMAIN d[u].po_maps[p].object_maps :
            MalformedJoin(d[u].po_maps[p].object_maps[o])

\* every term map of the document has a term type
TypedTermMap(m) == IsSome(m.tm_info.term_type)

AllTyped(d) ==
    \A u \in DOMAIN d :
        /\ TypedTermMap(d[u].subject_map)
        /\ \A p \in DOMAIN d[u].po_maps :
              /\ \A i \in DOMAIN d[u].po_maps[p].predicate_maps :
                    TypedTermMap(d[u].po_maps[p].predicate_maps[i])
              /\ \A o \in DOMAIN d[u].po_maps[p].object_maps :
                    TypedTermMap(d[u].po_maps[p].object_maps[o])

\* stated for the documents whose term maps all have a term type, where
\* nothing but the join can fail
C2_MalformedJoinIsReturnedError ==
    (pc = "done" /\ HasMalformedJoin(doc) /\ AllTyped(doc))
        => result \notin {"Ok", "panic"}

(***************************************************************************)
(* C3.  A document of N triples maps and no parent-referencing object map  *)
(* translates to N chains Source -> Project -> Extend -> Serializer ->     *)
(* Target (5N nodes, 4N edges), with no edge between two chains.           *)
(***************************************************************************)
Project(u) == handles[u].last_node

SourceOf(u) == sources[u]

HasEdge(a, b) == \E e \in DOMAIN edges : edges[e].from = a /\ edges[e].to = b

\* the units in `chained` each have a chain of five nodes, the other units a
\* bare Source -> Project, and the graph has nothing else
ChainsOf(chained) ==
    LET N == Len(doc)
        K == Cardinality(chained)
    IN  /\ Len(nodes) = 5 * K + 2 * (N - K)
        /\ Len(edges) = 4 * K + (N - K)
        /\ \A i \in NodeIdxs : Cardinality(InEdges(i)) <= 1 /\ Cardinality(OutEdges(i)) <= 1
        /\ \A u \in Units :
            /\ Kind(SourceOf(u)) = "SourceOp"
            /\ Kind(Project(u)) = "ProjectOp"
            /\ HasEdge(SourceOf(u), Project(u))
        /\ \A u \in chained :
            \E e \in NodesOfKind("ExtendOp"), z \in NodesOfKind("SerializerOp"),
               t \in NodesOfKind("TargetOp") :
                HasEdge(Project(u), e) /\ HasEdge(e, z) /\ HasEdge(z, t)

\* C3 as stated: every unit has its chain, also one without POMs
C3_ChainPerTriplesMap ==
    (PlanReturned /\ ~HasPtm(doc)) => ChainsOf(Units)

\* C3 as amended: a chain for each unit that has POMs, a bare
\* Source -> Project for each unit whose po_maps list is empty
C3_ChainPerTriplesMapWithPOMs ==
    (PlanReturned /\ ~HasPtm(doc)) => ChainsOf({u \in Units : doc[u].po_maps # <<>>})

C3_Witness ==
    /\ PlanReturned
    /\ ~HasPtm(doc)
    /\ Len(doc) = 2
    /\ doc[1].po_maps = <<>>
    /\ doc[2].po_maps # <<>>
    /\ Len(nodes) = 7

(***************************************************************************)
(* C4.  In the plan translate returns, every parent-referencing object     *)
(* map (parent declared earlier, later, or the unit itself) has its own    *)
(* join node, with exactly two incoming edges: one from the child unit's   *)
(* Project node and one from the parent unit's Project node.               *)
(***************************************************************************)
\* the join nodes fed by exactly the Project nodes of units u and q
JoinNodesBetween(u, q) ==
    {j \in NodesOfKind("JoinOp") :
        /\ Cardinality(InEdges(j)) = 2
        /\ \E e1 \in InEdges(j), e2 \in InEdges(j) :
            /\ e1 # e2
            /\ edges[e1].from = Project(u)
            /\ edges[e2].from = Project(q)}

\* the object maps of unit u whose parent is unit q
JoinedObjectMaps(u, q) ==
    {po \in PtmObjectMapsOf(u) : Unwrap(OM(u, po).parent_tm) = doc[q].identifier}

JoinPerObjectMap ==
    \A u \in Units : \A q \in Units :
        Cardinality(JoinNodesBetween(u, q)) =
            IF u = q THEN Cardinality(JoinedObjectMaps(u, u))
            ELSE Cardinality(JoinedObjectMaps(u, q)) + Cardinality(JoinedObjectMaps(q, u))

\* stated for the documents whose term maps all have a term type and whose
\* parent-referencing object maps all have a join condition, where no
\* branch aborts
C4_JoinPerObjectMap ==
    (PlanReturned /\ AllTyped(doc) /\ ~HasMalformedJoin(doc)) => JoinPerObjectMap

\* the same, on the translations none of whose branches failed
JoinPerObjectMapWhenNoBranchFailed == (PlanReturned /\ inner = "Ok") => JoinPerObjectMap

(***************************************************************************)
(* C5.  In every join branch the object variable of the serializer         *)
(* template is the extend attribute bound to the function of the           *)
(* alias-prefixed parent subject map, also for an object map at a position *)
(* om_idx > 0 of its POM.                                                  *)
(***************************************************************************)
Successors(i, k) == {n \in NodesOfKind(k) : HasEdge(i, n)}

\* the pattern lines of a template: its pieces, eight to a line
TemplateLines(template) ==
    [l \in 1..(Len(template) \div 8) |-> SubSeq(template, 8 * l - 7, 8 * l)]

TemplateSubjects(template) == {line[2] : line \in Range(TemplateLines(template))}

TemplatePredicates(template) == {line[4] : line \in Range(TemplateLines(template))}

TemplateObjects(template) == {line[6] : line \in Range(TemplateLines(template))}

\* the function of the parent subject map a join node's alias stands for
ParentSubjectFunction(j) ==
    LET alias == Op(j).config.alias
        k == CHOOSE k \in Units : "join_" \o ToString(k - 1) = alias
    IN  extract_extend_function_from_term_map(
            prefix_attributes(doc[k].subject_map.tm_info, alias))

C5_TemplateObjectIsParentSubject ==
    PlanReturned =>
        \A j \in NodesOfKind("JoinOp") :
            \A e \in Successors(j, "ExtendOp") :
                \A z \in Successors(e, "SerializerOp") :
                    \A name \in TemplateObjects(Op(z).config.template) :
                        /\ name \in DOMAIN Op(e).config.extend_pairs
                        /\ Op(e).config.extend_pairs[name] = ParentSubjectFunction(j)

(***************************************************************************)
(* C6.  Every attribute a Serializer node's template references (subject,  *)
(* predicate, object) is a key of the extend_pairs of the Extend node that *)
(* is its direct predecessor.                                              *)
(***************************************************************************)
TemplateNames(template) ==
    TemplateSubjects(template) \cup TemplatePredicates(template)
        \cup TemplateObjects(template)

C6_TemplateNamesAreExtendKeys ==
    \A z \in NodesOfKind("SerializerOp") :
        \A e \in InEdges(z) :
            /\ Kind(edges[e].from) = "ExtendOp"
            /\ TemplateNames(Op(z).config.template)
                   \subseteq DOMAIN Op(edges[e].from).config.extend_pairs

\* a returned plan with a join branch whose template has two pattern lines
C6_Witness ==
    /\ PlanReturned
    /\ \E j \in NodesOfKind("JoinOp") :
         \E e \in Successors(j, "ExtendOp") :
           \E z \in Successors(e, "SerializerOp") :
              /\ Len(TemplateLines(Op(z).config.template)) = 2
              /\ Cardinality(TemplateNames(Op(z).config.template)) = 4

(***************************************************************************)
(* C7.  The Project attribute set of a unit is exactly: the subject map's  *)
(* attributes, the graph map's, every predicate map's, every plain object  *)
(* map's, and the join child attributes of every parent-referencing object *)
(* map; neither the join's parent attributes nor the parent-referencing    *)
(* object map's own term-map attributes.                                   *)
(***************************************************************************)
ClaimedObjectMapAttributes(om) ==
    IF IsPtm(om)
    THEN (IF IsSome(om.join_condition)
          THEN Range(Unwrap(om.join_condition).child_attributes)
          ELSE {})
    ELSE get_attributes(om.tm_info)

ClaimedProjection(tm) ==
    get_attributes(tm.subject_map.tm_info)
    \cup (IF IsSome(tm.graph_map) THEN get_attributes(Unwrap(tm.graph_map).tm_info) ELSE {})
    \cup UNION {get_attributes(pm.tm_info) :
                    pm \in UNION {Range(pom.predicate_maps) : pom \in Range(tm.po_maps)}}
    \cup UNION {ClaimedObjectMapAttributes(om) :
                    om \in UNION {Range(pom.object_maps) : pom \in Range(tm.po_maps)}}

\* stated for the documents whose parent-referencing object maps all have
\* their join condition
C7_ProjectionAttributes ==
    (pc = "second" /\ ~HasMalformedJoin(doc))
        => Op(Project(1)).config.projection_attributes = ClaimedProjection(doc[1])

(***************************************************************************)
(* C8.  apply on a Processed handle returns EmptyPlan if the graph has no  *)
(* node, else DanglingApplyOperator if the handle has no frontier, else    *)
(* WrongApplyOperator if the operator is a Source, Target or Serializer;   *)
(* in each error case the graph's nodes and edges, the source-index list   *)
(* and the handle's frontier are unchanged.                                *)
(***************************************************************************)
\* the step is the builder call `op` (every call leaves its record in ret)
Called(op) == ret'.op = op

ApplyErrorsInOrder ==
    Called("apply") =>
        LET h == handles[ret'.recv]
            expected ==
                IF Len(nodes) = 0 THEN "EmptyPlan"
                ELSE IF h.last_node = NoNode THEN "DanglingApplyOperator"
                ELSE IF ret'.arg.kind \in {"SourceOp", "TargetOp", "SerializerOp"}
                THEN "WrongApplyOperator"
                ELSE "Ok"
        IN  /\ ret'.res = expected
            /\ ret'.res # "Ok" =>
                /\ nodes' = nodes
                /\ edges' = edges
                /\ sources' = sources
                /\ handles' = handles

C8_ApplyErrors == [][ApplyErrorsInOrder]_vars

\* apply failed on a cleared graph, by a handle without frontier, with a
\* Source operator: all three checks would fail, the first is reported
C8_Witness ==
    /\ ret.op = "apply"
    /\ ret.res = "EmptyPlan"
    /\ Len(nodes) = 0
    /\ handles[ret.recv].last_node = NoNode
    /\ ret.arg.kind = "SourceOp"

(***************************************************************************)
(* C9.  Each source() on an Init handle adds exactly one Source node and   *)
(* no edge, appends the node's index to the source-index list and returns  *)
(* a Processed handle whose frontier is that node; a Source node has no    *)
(* incoming edge, then or in any later state.                              *)
(***************************************************************************)
SourceAddsOneNode ==
    Called("source") =>
        LET idx == Len(nodes)
        IN  /\ Len(nodes') = Len(nodes) + 1
            /\ SubSeq(nodes', 1, Len(nodes)) = nodes
            /\ nodes'[idx + 1].operator.kind = "SourceOp"
            /\ edges' = edges
            /\ sources' = Append(sources, idx)
            /\ handles' = Append(handles, handles'[Len(handles')])
            /\ handles'[Len(handles')].stage = "Processed"
            /\ handles'[Len(handles')].last_node = idx

SourcesHaveNoIncomingEdge == \A i \in NodesOfKind("SourceOp") : InEdges(i) = {}

C9_Source == [][SourceAddsOneNode]_vars /\ []SourcesHaveNoIncomingEdge

\* two sources are registered and a join has put edges from both frontiers
C9_Witness ==
    /\ Cardinality(NodesOfKind("SourceOp")) = 2
    /\ Len(sources) = 2
    /\ NodesOfKind("JoinOp") # {}
    /\ Len(edges) >= 2

(***************************************************************************)
(* C10.  Each successful apply adds exactly one node carrying the given    *)
(* operator and exactly one edge from the receiver's frontier to the new   *)
(* node, and the returned handle's frontier is the new node; hence after   *)
(* one source() and k chained successful applies on a fresh plan the graph *)
(* has k + 1 nodes and k edges.                                            *)
(***************************************************************************)
ApplyAddsNodeAndEdge ==
    (Called("apply") /\ ret'.res = "Ok") =>
        LET idx == Len(nodes)
            h == handles[ret'.recv]
        IN  /\ Len(nodes') = Len(nodes) + 1
            /\ SubSeq(nodes', 1, Len(nodes)) = nodes
            /\ nodes'[idx + 1].operator = ret'.arg
            /\ Len(edges') = Len(edges) + 1
            /\ SubSeq(edges', 1, Len(edges)) = edges
            /\ edges'[Len(edges')].from = h.last_node
            /\ edges'[Len(edges')].to = idx
            /\ handles' = Append(handles, handles'[Len(handles')])
            /\ handles'[Len(handles')].last_node = idx

\* the handles are those of Plan::new(), one source() and k applies, each
\* apply called on the handle the call before it returned
ChainedApplies(k) ==
    /\ Len(handles) = k + 2
    /\ handles[2].via = "source"
    /\ \A i \in 3..(k + 2) : handles[i].via = "apply" /\ handles[i].from = i - 1
    /\ Len(nodes) = k + 1

ChainHasKEdges ==
    \A k \in 0..MaxNodes : ChainedApplies(k) => Len(nodes) = k + 1 /\ Len(edges) = k

C10_Apply == [][ApplyAddsNodeAndEdge]_vars /\ []ChainHasKEdges

C10_Witness == ChainedApplies(2) /\ Len(nodes) = 3 /\ Len(edges) = 2

(***************************************************************************)
(* C11.  After any sequence of builder calls the stage types allow, every  *)
(* Target node has exactly one incoming edge and it comes from a           *)
(* Serializer node, no Serializer node has a Serializer or Target          *)
(* predecessor, and no Target node has an outgoing edge.                   *)
(***************************************************************************)
Predecessors(i) == {edges[e].from : e \in InEdges(i)}

C11_StageOrder ==
    /\ \A t \in NodesOfKind("TargetOp") :
          /\ Cardinality(InEdges(t)) = 1
          /\ \A p \in Predecessors(t) : Kind(p) = "SerializerOp"
          /\ OutEdges(t) = {}
    /\ \A z \in NodesOfKind("SerializerOp") :
          \A p \in Predecessors(z) : Kind(p) \notin {"SerializerOp", "TargetOp"}

\* one Serialized handle sunk twice: two Target nodes under one Serializer
C11_Witness ==
    /\ Cardinality(NodesOfKind("TargetOp")) = 2
    /\ Cardinality(NodesOfKind("SerializerOp")) = 1
    /\ \E i \in DOMAIN handles : handles[i].stage = "Sunk"

(***************************************************************************)
(* C12.  Translating the same document twice, each time from a fresh       *)
(* plan, yields isomorphic graphs: the same node operators with the same   *)
(* configurations and the same edges between them (here under the          *)
(* identity of node indices, which is one isomorphism).                    *)
(***************************************************************************)
Operators(g) == [i \in DOMAIN g.nodes |-> g.nodes[i].operator]

Arrows(g) == [e \in DOMAIN g.edges |-> <<g.edges[e].from, g.edges[e].to>>]

SameGraph(a, b) == Operators(a) = Operators(b) /\ Arrows(a) = Arrows(b)

SecondCallDone == pc = "done" /\ ret.op = "translate_to_algebra"

ChildOf(j) ==
    edges[CHOOSE e \in InEdges(j) : \A f \in InEdges(j) : e <= f].from

\* the Extend nodes opening the branches of unit u: the one under its
\* Project node, and the one under each join node built on its Project node
BranchHeads(u) ==
    Successors(Project(u), "ExtendOp") \cup
    UNION {Successors(j, "ExtendOp") :
              j \in {x \in NodesOfKind("JoinOp") : ChildOf(x) = Project(u)}}

TargetsOf(u) ==
    UNION {Successors(z, "TargetOp") :
              z \in UNION {Successors(e, "SerializerOp") : e \in BranchHeads(u)}}

TargetPath(t) == Op(t).config.configuration.path

\* stated for the translations none of whose branches failed
C13_BranchOutputsDistinct ==
    (PlanReturned /\ inner = "Ok") =>
        \A u \in Units : \A t1 \in TargetsOf(u) : \A t2 \in TargetsOf(u) :
            t1 # t2 => TargetPath(t1) # TargetPath(t2)

(***************************************************************************)
(* C14.  When a term map whose function tree is built has no term type,    *)
(* translate ends in a reported error: it neither aborts nor returns a     *)
(* plan.                                                                   *)
(***************************************************************************)
\* some unit's extend functions are built (it has POMs) from a subject map
\* without term type
BuildsUntypedFunction(d) ==
    \E u \in DOMAIN d : d[u].po_maps # <<>> /\ ~TypedTermMap(d[u].subject_map)

\* stated for the documents without parent-referencing object map, where
\* no branch fails for another reason
C14_MissingTermTypeIsReturnedError ==
    (pc = "done" /\ ~HasPtm(doc) /\ BuildsUntypedFunction(doc))
        => result \notin {"Ok", "panic"}

(***************************************************************************)
(* C15.  For the unit at sequence index i, translate creates one Target    *)
(* node if the unit has a plain object map, plus one per parent-           *)
(* referencing object map of the unit; each of them has path               *)
(* "<i>_output.nt" and the N-Triples format.                               *)
(***************************************************************************)
PlainObjectMapsOf(u) == ObjectMapsOf(u) \ PtmObjectMapsOf(u)

ClaimedTargets(u) ==
    (IF PlainObjectMapsOf(u) # {} THEN 1 ELSE 0) + Cardinality(PtmObjectMapsOf(u))

TargetsAsClaimed ==
    /\ NodesOfKind("TargetOp") = UNION {TargetsOf(u) : u \in Units}
    /\ \A u \in Units :
          /\ Cardinality(TargetsOf(u)) = ClaimedTargets(u)
          /\ \A t \in TargetsOf(u) :
                /\ TargetPath(t) = ToString(u - 1) \o "_output.nt"
                /\ Op(t).config.data_format = "NT"
                /\ Op(t).config.target_type = "File"

\* stated for the documents whose term maps all have a term type and whose
\* parent-referencing object maps all have a join condition
C15_TargetsPerUnit ==
    (PlanReturned /\ AllTyped(doc) /\ ~HasMalformedJoin(doc)) => TargetsAsClaimed

\* the same, on the translations none of whose branches failed
TargetsPerUnitWhenNoBranchFailed == (PlanReturned /\ inner = "Ok") => TargetsAsClaimed

(***************************************************************************)
(* C16.  partition_pom_join_nonjoin puts every object map of every input   *)
(* POM in exactly one output POM: the parent-referencing ones only in the  *)
(* join-bearing list, the plain ones only in the non-join list; a mixed    *)
(* POM yields one join-bearing POM and one non-join POM with the same POM  *)
(* index and the same predicate maps; no object map is lost or duplicated. *)
(***************************************************************************)
PartitionReturned == pc = "returned" /\ ret.op = "partition_pom_join_nonjoin"

Count(seq, x) == Cardinality({i \in DOMAIN seq : seq[i] = x})

\* the positions in an output list of the POMs with index k
WithIndex(idx_poms, k) == {i \in DOMAIN idx_poms : idx_poms[i][1] = k}

\* how often the output lists hold object map x under POM index k
CountUnder(idx_poms, k, x) ==
    LET at == WithIndex(idx_poms, k)
    IN  IF at = {} THEN 0
        ELSE Count(idx_poms[CHOOSE i \in at : TRUE][2].object_maps, x)

PartitionAsClaimed(poms, joined, no_join) ==
    /\ \A i \in DOMAIN joined : \A o \in DOMAIN joined[i][2].object_maps :
          IsPtm(joined[i][2].object_maps[o])
    /\ \A i \in DOMAIN no_join : \A o \in DOMAIN no_join[i][2].object_maps :
          ~IsPtm(no_join[i][2].object_maps[o])
    /\ \A i \in DOMAIN joined : joined[i][1] \in 0..(Len(poms) - 1)
    /\ \A i \in DOMAIN no_join : no_join[i][1] \in 0..(Len(poms) - 1)
    /\ \A k \in 0..(Len(poms) - 1) :
          LET pom == poms[k + 1]
              has_ptm == \E o \in DOMAIN pom.object_maps : IsPtm(pom.object_maps[o])
              has_plain == \E o \in DOMAIN pom.object_maps : ~IsPtm(pom.object_maps[o])
          IN  /\ Cardinality(WithIndex(joined, k)) = (IF has_ptm THEN 1 ELSE 0)
              /\ Cardinality(WithIndex(no_join, k)) =
                    (IF has_plain \/ ~has_ptm THEN 1 ELSE 0)
              /\ \A i \in WithIndex(joined, k) :
                    joined[i][2].predicate_maps = pom.predicate_maps
              /\ \A i \in WithIndex(no_join, k) :
                    no_join[i][2].predicate_maps = pom.predicate_maps
              /\ \A x \in Range(pom.object_maps) :
                    CountUnder(joined, k, x) + CountUnder(no_join, k, x)
                        = Count(pom.object_maps, x)

C16_PartitionKeepsObjectMaps ==
    PartitionReturned => PartitionAsClaimed(ret.arg, ret.res[1], ret.res[2])

\* a mixed POM after a plain one: its index 1 is in both output lists
C16_Witness ==
    /\ PartitionReturned
    /\ Len(ret.arg) = 2
    /\ ret.arg[1].object_maps = <<PlainObjectMap>>
    /\ WithIndex(ret.res[1], 1) # {}
    /\ WithIndex(ret.res[2], 1) # {}
    /\ Len(ret.res[2]) = 2

(***************************************************************************)
(* C17.  The join built for an object map whose parent is the triples map  *)
(* at sequence index k (its position in the document) has alias            *)
(* "join_<k>"; the alias depends on the parent only, so two object maps    *)
(* with the same parent have the same alias on two join nodes.             *)
(***************************************************************************)
\* the alias of the unit at position k of the document (sequence index k - 1)
AliasOfUnit(k) == "join_" \o ToString(k - 1)

\* a step of add_join_related_ops that adds nodes adds the join node first,
\* tagged with the index of the unit its object map names as parent
JoinTaggedWithParent ==
    (pc = "join" /\ Len(nodes') > Len(nodes)) =>
        LET om == Head(jq).om
            j == nodes'[Len(nodes) + 1]
        IN  /\ j.operator.kind = "JoinOp"
            /\ \E k \in DOMAIN doc :
                  /\ doc[k].identifier = Unwrap(om.parent_tm)
                  /\ j.operator.config.alias = AliasOfUnit(k)

\* every join node has the alias of the unit its second edge comes from
JoinAliasIsParentIndex ==
    \A j \in NodesOfKind("JoinOp") :
        \E k \in Units :
            /\ Op(j).config.alias = AliasOfUnit(k)
            /\ \E e \in InEdges(j) :
                  /\ edges[e].from = Project(k)
                  /\ \A f \in InEdges(j) : f <= e

C17_JoinAlias == [][JoinTaggedWithParent]_vars /\ []JoinAliasIsParentIndex

\* two object maps of the first unit name the second unit as their parent:
\* two join nodes with the alias join_1
C17_Witness ==
    /\ PlanReturned
    /\ \E j1 \in NodesOfKind("JoinOp"), j2 \in NodesOfKind("JoinOp") :
          /\ j1 # j2
          /\ ChildOf(j1) = Project(1)
          /\ ChildOf(j2) = Project(1)
          /\ Op(j1).config.alias = "join_1"
          /\ Op(j2).config.alias = "join_1"

(***************************************************************************)
(* C18.  After any sequence of builder calls the graph is acyclic: every   *)
(* edge goes from a node to a node with a strictly larger index, because   *)
(* a call adds edges only from nodes that exist to the node it has just    *)
(* created.                                                                *)
(***************************************************************************)
EdgesGoUp == \A e \in DOMAIN edges : edges[e].from < edges[e].to

\* the edges a step adds end at the node the step adds
NewEdgesEndAtNewNode ==
    /\ SubSeq(edges', 1, Len(edges)) = edges
    /\ \A e \in (Len(edges) + 1)..Len(edges') :
          /\ Len(nodes') = Len(nodes) + 1
          /\ edges'[e].to = Len(nodes)
          /\ edges'[e].from \in NodeIdxs

C18_Acyclic == [][NewEdgesEndAtNewNode]_vars /\ []EdgesGoUp

\* a join fed by two sources, and a serializer under the join
C18_Witness ==
    /\ NodesOfKind("JoinOp") = {2}
    /\ HasEdge(0, 2)
    /\ HasEdge(1, 2)
    /\ HasEdge(2, 3)
    /\ Kind(3) = "SerializerOp"

(***************************************************************************)
(* C19.  After any sequence of builder calls on handles derived from one   *)
(* Plan::new(), the source-index list holds exactly the indices of the     *)
(* graph's Source nodes, each once, in creation order.  (All handles read  *)
(* the one graph and the one list: the Rc the handles share is the         *)
(* variables nodes, edges and sources.)                                    *)
(***************************************************************************)
SourcesAreTheSourceNodes ==
    /\ Len(sources) = Cardinality(NodesOfKind("SourceOp"))
    /\ \A i \in DOMAIN sources : sources[i] \in NodesOfKind("SourceOp")
    /\ \A i \in DOMAIN sources : \A j \in DOMAIN sources :
          i < j => sources[i] < sources[j]

\* the list only grows, at its end, and only by a source() call
SourcesGrowBySource ==
    \/ sources' = sources
    \/ Called("source") /\ sources' = Append(sources, Len(nodes))

C19_SourceList == [][SourcesGrowBySource]_vars /\ []SourcesAreTheSourceNodes

\* a second source added after an apply: the list skips the applied node
C19_Witness == sources = <<0, 2>> /\ Kind(1) = "ProjectOp" /\ Len(nodes) >= 3

(***************************************************************************)
(* C20.  The serializer template of a list of (index, POM) pairs has one   *)
(* line per (predicate, object) pair of each POM, the POMs in list order   *)
(* and the pairs of a POM in predicate-major order, each line              *)
(* " ?<prefix>_sm ?<prefix>_p<pom>-<i> ?<prefix>_o<pom>-<j>." followed by  *)
(* a newline; it is the empty string when there are no pairs.              *)
(***************************************************************************)
TemplateReturned == pc = "returned" /\ ret.op = "extract_serializer_template"

PairsOf(pom) == Len(pom.predicate_maps) * Len(pom.object_maps)

RECURSIVE PairsBefore(_, _)
\* the number of pairs of the POMs before position q of the list
PairsBefore(idx_poms, q) ==
    IF q = 1 THEN 0
    ELSE PairsBefore(idx_poms, q - 1) + PairsOf(idx_poms[q - 1][2])

ClaimedLine(prefix, idx, i, j) ==
    <<" ?", prefix \o "_sm",
      " ?", prefix \o "_p" \o ToString(idx) \o "-" \o ToString(i),
      " ?", prefix \o "_o" \o ToString(idx) \o "-" \o ToString(j),
      ".", "\n">>

TemplateAsClaimed(idx_poms, prefix, template) ==
    LET lines == TemplateLines(template)
    IN  /\ Len(template) = 8 * PairsBefore(idx_poms, Len(idx_poms) + 1)
        /\ \A q \in DOMAIN idx_poms :
              LET idx == idx_poms[q][1]
                  pom == idx_poms[q][2]
              IN  \A i \in 0..(Len(pom.predicate_maps) - 1) :
                    \A j \in 0..(Len(pom.object_maps) - 1) :
                       lines[PairsBefore(idx_poms, q) + i * Len(pom.object_maps) + j + 1]
                           = ClaimedLine(prefix, idx, i, j)

C20_TemplateLines ==
    TemplateReturned => TemplateAsClaimed(ret.arg.idx_poms, ret.arg.prefix_id, ret.res)

\* two POMs of two predicate maps and two object maps each, the first with
\* an index that is not its place in the list: eight lines
C20_Witness ==
    /\ TemplateReturned
    /\ Len(ret.arg.idx_poms) = 2
    /\ ret.arg.idx_poms[1][1] = 2
    /\ ret.arg.idx_poms[2][1] = 0
    /\ Len(ret.res) = 64

(***************************************************************************)
(* C21.  apply, serialize and sink leave the receiver handle's own         *)
(* frontier as it was; only the returned handle has the new node as        *)
(* frontier.  So two growth calls on one handle create two sibling nodes   *)
(* under the same frontier, and in a translated plan the non-join Extend   *)
(* node and every join node of a unit are direct successors of the unit's  *)
(* Project node.                                                           *)
(***************************************************************************)
GrowthCalls == {"apply", "serialize", "sink"}

\* a growth call leaves every handle there was, the receiver included, and
\* a successful one returns a handle on the node it added
ReceiverKeepsFrontier ==
    (pc = "builder" /\ ret'.op \in GrowthCalls) =>
        /\ SubSeq(handles', 1, Len(handles)) = handles
        /\ handles'[ret'.recv].last_node = handles[ret'.recv].last_node
        /\ ret'.res = "Ok" =>
              /\ Len(handles') = Len(handles) + 1
              /\ handles'[Len(handles')].last_node = Len(nodes)
              /\ handles'[Len(handles')].from = ret'.recv

\* the node a growth call returned hangs under the receiver's frontier,
\* however many calls were made on that receiver
GrownUnderReceiver ==
    pc = "builder" =>
        \A h \in DOMAIN handles :
            handles[h].via \in GrowthCalls =>
                Predecessors(handles[h].last_node) = {handles[handles[h].from].last_node}

\* in a translated plan: an Extend node that follows no join, and every
\* join node, hangs under the Project node of a unit
BranchesUnderProject ==
    PlanReturned =>
        /\ \A e \in NodesOfKind("ExtendOp") :
              Predecessors(e) \cap NodesOfKind("JoinOp") = {} =>
                  \E u \in Units : Predecessors(e) = {Project(u)}
        /\ \A j \in NodesOfKind("JoinOp") :
              \E u \in Units : ChildOf(j) = Project(u)

C21_ReceiverFrontierKept ==
    [][ReceiverKeepsFrontier]_vars /\ []GrownUnderReceiver /\ []BranchesUnderProject

\* two applies on the handle source() returned: two siblings under the
\* Source node, the handle's frontier still the Source node
C21_Witness ==
    /\ pc = "builder"
    /\ \E h1 \in DOMAIN handles, h2 \in DOMAIN handles :
          /\ h1 # h2
          /\ handles[h1].via = "apply"
          /\ handles[h2].via = "apply"
          /\ handles[h1].from = handles[h2].from
          /\ handles[h1].last_node # handles[h2].last_node
          /\ HasEdge(handles[handles[h1].from].last_node, handles[h1].last_node)
          /\ HasEdge(handles[handles[h1].from].last_node, handles[h2].last_node)

(***************************************************************************)
(* C22.  In every state the builder methods reach from Plan::new(), every  *)
(* Processed, Serialized or Sunk handle has a frontier that indexes an     *)
(* existing node and the graph is not empty; so apply and serialize never  *)
(* return EmptyPlan or DanglingApplyOperator, and sink never returns       *)
(* EmptyPlan.                                                              *)
(***************************************************************************)
GrownStages == {"Processed", "Serialized", "Sunk"}

FrontiersExist ==
    \A h \in DOMAIN handles :
        handles[h].stage \in GrownStages =>
            /\ handles[h].last_node \in NodeIdxs
            /\ node_count(Graph) > 0

NoEmptyOrDangling ==
    /\ ret.op \in {"apply", "serialize"} =>
          ret.res \notin {"EmptyPlan", "DanglingApplyOperator"}
    /\ ret.op = "sink" => ret.res # "EmptyPlan"

C22_FrontiersExist == FrontiersExist /\ NoEmptyOrDangling

\* a handle of each grown stage exists, and the last call, a sink, succeeded
C22_Witness ==
    /\ \A st \in GrownStages : \E h \in DOMAIN handles : handles[h].stage = st
    /\ ret.op = "sink"
    /\ ret.res = "Ok"

(***************************************************************************)
(* C23.  After any sequence of builder operations the numeric suffix of    *)
(* every node's id is the node's index in the graph (the node count when   *)
(* it was added), so the node ids of the shared graph are pairwise         *)
(* distinct, whichever handle created the nodes.                           *)
(***************************************************************************)
\* the prefixes the callers of apply give: a caller's own, and those of
\* translate_to_algebra
ApplyPrefixes == {"Op", "Projection", "ExtendOp", "Extend"}

PrefixOf(i) ==
    CASE Kind(i) = "SourceOp" -> {"Source"}
      [] Kind(i) = "SerializerOp" -> {"Serialize"}
      [] Kind(i) = "TargetOp" -> {"Sink"}
      [] Kind(i) = "JoinOp" -> {"Join"}
      [] OTHER -> ApplyPrefixes

IdSuffixIsIndex ==
    \A i \in NodeIdxs : nodes[i + 1].id \in {NodeId(p, i) : p \in PrefixOf(i)}

IdsDistinct ==
    \A i \in NodeIdxs, j \in NodeIdxs : i # j => nodes[i + 1].id # nodes[j + 1].id

C23_NodeIdIsIndex == IdSuffixIsIndex /\ IdsDistinct

\* nodes added through two different handles of one Plan::new(), a sink
\* among them that was added when the edge count was not the node count
C23_Witness ==
    /\ pc = "builder"
    /\ \E h1 \in DOMAIN handles, h2 \in DOMAIN handles :
          /\ handles[h1].via = "sink"
          /\ handles[h2].via = "apply"
          /\ handles[h1].from # handles[h2].from
    /\ \E t \in NodesOfKind("TargetOp") :
          \E e \in InEdges(t) : e - 1 # t

(***************************************************************************)
(* C24.  translate_rename_pairs_map returns, for a Basic expression E      *)
(* referencing iterator I: exactly the pair "I.f" -> "E.f" when the        *)
(* reference names a field f (whether or not I is in the iterators map);   *)
(* when it names no field and I is in the map, exactly one pair "I.g" ->   *)
(* "E.g" for each field g of I of type Normal and none for a field of      *)
(* another type; the empty map when it names no field and I is unknown,    *)
(* and when the expression is not Basic.                                   *)
(***************************************************************************)
RenameReturned == pc = "returned" /\ ret.op = "translate_rename_pairs_map"

\* the idents of the Normal fields of an iterator
NormalIdents(iterator) ==
    {iterator.fields[i].ident :
        i \in {k \in DOMAIN iterator.fields : iterator.fields[k].field_type = "Normal"}}

RenameAsClaimed(iterators_map, e, pairs) ==
    IF e.expr_enum.kind # "Basic" THEN DOMAIN pairs = {}
    ELSE LET I == e.expr_enum.reference.iterator_ident
             field == e.expr_enum.reference.field
         IN  IF IsSome(field)
             THEN /\ DOMAIN pairs = {Dotted(I, Unwrap(field))}
                  /\ pairs[Dotted(I, Unwrap(field))] = Dotted(e.ident, Unwrap(field))
             ELSE IF I \in DOMAIN iterators_map
             THEN /\ DOMAIN pairs = {Dotted(I, g) : g \in NormalIdents(iterators_map[I])}
                  /\ \A g \in NormalIdents(iterators_map[I]) :
                        pairs[Dotted(I, g)] = Dotted(e.ident, g)
             ELSE DOMAIN pairs = {}

C24_RenamePairs ==
    RenameReturned => RenameAsClaimed(ret.arg.iterators_map, ret.arg.expr_stmt, ret.res)

\* no field named, the iterator known, with a Normal field and a field of
\* another type and another ident: one pair returned, the Normal field's
C24_Witness ==
    /\ RenameReturned
    /\ ret.arg.expr_stmt.expr_enum.kind = "Basic"
    /\ ~IsSome(ret.arg.expr_stmt.expr_enum.reference.field)
    /\ ret.arg.expr_stmt.expr_enum.reference.iterator_ident = "it1"
    /\ "it1" \in DOMAIN ret.arg.iterators_map
    /\ LET fields == ret.arg.iterators_map["it1"].fields
       IN  /\ Len(fields) = 2
           /\ fields[1] = [ident |-> "id", field_type |-> "Push"]
           /\ fields[2] = [ident |-> "name", field_type |-> "Normal"]
    /\ DOMAIN ret.res = {"it1.name"}
    /\ ret.res["it1.name"] = "exp.name"

(***************************************************************************)
(* C25.  With a variable map that assigns a variable to the identifier of  *)
(* every term map of the quad, unterminated_triple_strings returns exactly *)
(* |classes of the subject map| + the sum over the POMs of |pm| * |om|     *)
(* strings: first "<s> a <class>" for each class in order, then for each   *)
(* POM in order "<s> <p> <o>" for each (predicate, object) pair, the       *)
(* predicate outside, where <s>, <p>, <o> are the variables of the         *)
(* subject, predicate and object map.                                      *)
(***************************************************************************)
TriplesReturned == pc = "returned" /\ ret.op = "unterminated_triple_strings"

RECURSIVE StringsBefore(_, _)
\* the number of (predicate, object) pairs of the POMs before position q
StringsBefore(poms, q) ==
    IF q = 1 THEN 0
    ELSE StringsBefore(poms, q - 1) + Len(poms[q - 1].pm) * Len(poms[q - 1].om)

TripleStringsAsClaimed(quad, variable_map, strings) ==
    LET sm == quad.triples.sm
        poms == quad.triples.poms
        s == variable_map[sm.tm_info.identifier]
        n == Len(sm.classes)
    IN  /\ Len(strings) = n + StringsBefore(poms, Len(poms) + 1)
        /\ \A c \in 1..n : strings[c] = s \o " a " \o sm.classes[c]
        /\ \A q \in DOMAIN poms : \A i \in DOMAIN poms[q].pm, j \in DOMAIN poms[q].om :
              strings[n + StringsBefore(poms, q) + (i - 1) * Len(poms[q].om) + j]
                  = s \o " " \o variable_map[poms[q].pm[i].tm_info.identifier]
                      \o " " \o variable_map[poms[q].om[j].tm_info.identifier]

C25_TripleStrings ==
    (TriplesReturned /\ QuadIdentifiers(ret.arg.quad) \subseteq DOMAIN ret.arg.variable_map) =>
        /\ ret.res.status = "returned"
        /\ TripleStringsAsClaimed(ret.arg.quad, ret.arg.variable_map, ret.res.value)

\* two classes, a first POM of two predicate and two object maps, a second
\* POM of one pair: 2 + 4 + 1 strings, the classes first
C25_Witness ==
    /\ TriplesReturned
    /\ Len(ret.arg.quad.triples.sm.classes) = 2
    /\ Len(ret.arg.quad.triples.poms) = 2
    /\ Len(ret.arg.quad.triples.poms[1].pm) = 2
    /\ Len(ret.arg.quad.triples.poms[1].om) = 2
    /\ ret.res.status = "returned"
    /\ ret.res.value = <<"?sm a ex:A", "?sm a ex:B",
                         "?sm ?pm1_1 ?om1_1", "?sm ?pm1_1 ?om1_2",
                         "?sm ?pm1_2 ?om1_1", "?sm ?pm1_2 ?om1_2",
                         "?sm ?pm2_1 ?om2_1">>

====
